---------------------------- MODULE Spec2Model ----------------------------
(***************************************************************************)
(* ghdump: dump of a repository's issues and pull requests as CSV rows.    *)
(*                                                                         *)
(* The model follows main() of ghdump.go: the credentials and the http     *)
(* client, time.Parse of the since-date, iterateIssues,                    *)
(* iteratePullRequests, the csv.Writer the callbacks write rows to,        *)
(* log.Fatal on an error and the deferred Flush on a normal return.        *)
(*                                                                         *)
(* The remote (the GitHub API behind the go-github client) is an input:    *)
(* per endpoint a list of pages, each page a list of items, each page      *)
(* reporting a next page (0: none).  It does not change during a run.      *)
(* Any single call to it may fail.  An item is represented by its          *)
(* creation time; the place it has in the collection (page, index) is its  *)
(* identity.  Times are whole days since 1970-01-01 (UTC).                 *)
(*                                                                         *)
(* The csv.Writer buffers rows and writes them to os.Stdout when its       *)
(* buffer is full and when it is flushed.  Such a write may fail: with an  *)
(* error, which the writer keeps, or, on a closed pipe, with SIGPIPE,      *)
(* which ends the process.                                                 *)
(*                                                                         *)
(* pc is "auth", "parse", "fetch", "items", "returned" while main runs,    *)
(* and "exit" (main returned), "fatal" (log.Fatal) or "killed" (SIGPIPE)   *)
(* when the process has ended.                                             *)
(***************************************************************************)
EXTENDS Integers, Sequences, FiniteSets

VARIABLES
    Token,          \* the environment's GITHUBTOKEN ("": not set)
    Password,       \* the environment's GITHUBPASSWORD, which main stores in CmdFlags.Password
    Username,       \* CmdFlags.Username: the -u flag
    NoLogin,        \* CmdFlags.NoLogin: the -n flag
    Organization,   \* CmdFlags.Organization: the -o flag
    Repository,     \* CmdFlags.Repository: the -r flag
    Since,          \* CmdFlags.Since: the -s flag, a string (sequence of characters)
    remote,         \* per endpoint, the collection the API serves
    hist,           \* whether the history variables (requests, calls, stdout) are recorded
    pc,             \* where main() is
    httpClient,     \* main's httpClient, which the API client sends its calls with
    cur,            \* the traversal main() is in or was last in: TypeIssue or TypePullRequest
    sinceDateTime,  \* main's sinceDateTime, the traversals' since
    options,        \* the traversal's options (github.IssueListByRepoOptions / PullRequestListOptions)
    items,          \* the page last returned (issues / pullrequests)
    response,       \* the response last returned: [NextPage]
    i,              \* position of the range loop over items
    err,            \* main's err
    w,              \* the csv.Writer's buffer: the rows written and not yet flushed
    werr,           \* the error the csv.Writer's buffer keeps of a failed write to os.Stdout
    written,        \* history: the rows handed to w.Write
    stdout,         \* history: the rows that reached os.Stdout
    requests,       \* history: the calls made to the API, each with its outcome
    calls,          \* history: the callback invocations
    first           \* history: what an earlier traversal did, when one is run after another

\* what the run is given and no step changes
env == <<Token, Password, Username, NoLogin, Organization, Repository, Since,
         remote, hist>>

vars == <<env, pc, httpClient, cur, sinceDateTime, options, items, response,
          i, err, w, werr, written, stdout, requests, calls, first>>

-----------------------------------------------------------------------------
(* Bounds of the model *)

MaxPages == 2

MaxPageLen == 3

MaxItems == 3

BufRows == 2

\* calls to one endpoint in one traversal; more than MaxPages, so that a
\* remote whose next-page links cycle is followed once around
MaxFetches == MaxPages + 1

-----------------------------------------------------------------------------
(* Program constants *)

GitHubMaxItemsPerPage == 100

TypePullRequest == "Pull Request"

TypeIssue == "Issue"

Kinds == {TypeIssue, TypePullRequest}

-----------------------------------------------------------------------------
(* time: dates, time.Parse with the layout "2006-01-02", Time.Before *)

IsLeap(y) == (y % 4 = 0) /\ ((y % 100 # 0) \/ (y % 400 = 0))

DaysIn(m, y) ==
    IF m = 2 THEN (IF IsLeap(y) THEN 29 ELSE 28)
    ELSE IF m \in {4, 6, 9, 11} THEN 30 ELSE 31

RECURSIVE DaysBeforeMonth(_, _)
DaysBeforeMonth(m, y) ==
    IF m <= 1 THEN 0 ELSE DaysBeforeMonth(m - 1, y) + DaysIn(m - 1, y)

LeapsBefore(y) == ((y - 1) \div 4) - ((y - 1) \div 100) + ((y - 1) \div 400)

\* time.Date(y, m, d, 0, 0, 0, 0, time.UTC), in days since 1970-01-01
Date(y, m, d) ==
    365 * (y - 1970) + (LeapsBefore(y) - LeapsBefore(1970))
        + DaysBeforeMonth(m, y) + (d - 1)

DigitChars == <<"0", "1", "2", "3", "4", "5", "6", "7", "8", "9">>

IsDigit(c) == \E d \in 1..10 : DigitChars[d] = c

DigitVal(c) == (CHOOSE d \in 1..10 : DigitChars[d] = c) - 1

BeforeOrEqual(t, u) == t <= u

BeforeReversed(t, u) == u < t

\* Time.Before
Before(t, u) == t < u

\* time.Parse(CmdFlagsSinceFormat, s) with CmdFlagsSinceFormat = "2006-01-02":
\* four digits, "-", two digits, "-", two digits and nothing after them; the
\* month in 1..12 and the day a day of that month.  [ok, t]
TimeParse(s) ==
    IF /\ Len(s) = 10
       /\ \A k \in {1, 2, 3, 4, 6, 7, 9, 10} : IsDigit(s[k])
       /\ s[5] = "-"
       /\ s[8] = "-"
    THEN LET y == 1000 * DigitVal(s[1]) + 100 * DigitVal(s[2])
                    + 10 * DigitVal(s[3]) + DigitVal(s[4])
             m == 10 * DigitVal(s[6]) + DigitVal(s[7])
             d == 10 * DigitVal(s[9]) + DigitVal(s[10])
         IN  IF m \in 1..12 /\ d >= 1 /\ d <= DaysIn(m, y)
             THEN [ok |-> TRUE, t |-> Date(y, m, d)]
             ELSE [ok |-> FALSE, t |-> 0]
    ELSE [ok |-> FALSE, t |-> 0]

-----------------------------------------------------------------------------
(* The inputs *)

\* the -s flag of the end-to-end scenario: 2024-01-01
ScenarioSince == <<"2", "0", "2", "4", "-", "0", "1", "-", "0", "1">>

\* the creation times of the three issues of the end-to-end scenario
ScenarioItems == <<Date(2024, 2, 1), Date(2024, 1, 15), Date(2023, 12, 20)>>

\* the -s flags tried: a date, the date of the scenario, a day that is not in
\* the month, a month that is not in the year, another format
SinceFlags ==
    { <<"2", "0", "2", "4", "-", "0", "1", "-", "1", "5">>,
      ScenarioSince,
      <<"2", "0", "2", "4", "-", "0", "2", "-", "3", "0">>,
      <<"2", "0", "2", "4", "-", "1", "3", "-", "0", "1">>,
      <<"0", "1", "/", "1", "5", "/", "2", "0", "2", "4">> }

\* the creation times of the items: 2023-12-20, 2024-01-15, 2024-02-01
\* (before, at and after the date of the flag that parses)
Times == {Date(2023, 12, 20), Date(2024, 1, 15), Date(2024, 2, 1)}

\* the credentials and the repository the run is given: a token or none, a
\* user name or none, a password or none, -n or not; the default repository
\* or another one
Flags ==
    [Token : {"", "token"}, Password : {"", "password"}, Username : {"", "user"},
     NoLogin : BOOLEAN,
     scope : {[Organization |-> "golang", Repository |-> "go"],
              [Organization |-> "acme", Repository |-> "widgets"]}]

\* a run with a token and nothing else set
PlainFlags ==
    [Token |-> "token", Password |-> "", Username |-> "", NoLogin |-> FALSE,
     scope |-> [Organization |-> "golang", Repository |-> "go"]]

RECURSIVE SumSeq(_)
SumSeq(s) == IF s = <<>> THEN 0 ELSE s[1] + SumSeq(Tail(s))

\* the page lengths of a collection of at most n items
Shapes(n) ==
    {s \in UNION {[1..k -> 0..MaxPageLen] : k \in 1..MaxPages} : SumSeq(s) <= n}

\* the items of flat cut into pages of the lengths of shape
RECURSIVE Split(_, _)
Split(flat, shape) ==
    IF shape = <<>> THEN <<>>
    ELSE <<SubSeq(flat, 1, shape[1])>>
            \o Split(SubSeq(flat, shape[1] + 1, Len(flat)), Tail(shape))

\* A collection: its pages in the order the API links them (page p reports
\* p + 1 as its next page), and what its last page reports as next page:
\* 0 (none) or a page of the collection again.
Collection(shape, flat, last) == [pages |-> Split(flat, shape), last |-> last]

\* the collections of one page that reports no next page and holds no item
\* or one item, of 2024-01-15
SmallCollections ==
    {Collection(<<Len(flat)>>, flat, 0) : flat \in {<<>>, <<Date(2024, 1, 15)>>}}

\* What the API answers to a request for page p of collection c; page 0 (no
\* page set in the request) is the first page, and a page past the last one
\* is empty and has no next page.
Answer(c, p) ==
    LET q == IF p = 0 THEN 1 ELSE p
    IN  IF q > Len(c.pages) THEN [items |-> <<>>, NextPage |-> 0]
        ELSE [items |-> c.pages[q],
              NextPage |-> IF q < Len(c.pages) THEN q + 1 ELSE c.last]

-----------------------------------------------------------------------------
(* History *)

Log(log, e) == IF hist THEN Append(log, e) ELSE log

LogAll(log, es) == IF hist THEN log \o es ELSE log

OfKind(log, kind) == SelectSeq(log, LAMBDA e : e.kind = kind)

-----------------------------------------------------------------------------
(* The program *)

NewOptions ==
    [Direction |-> "desc", Sort |-> "created", State |-> "all",
     PerPage |-> GitHubMaxItemsPerPage, Page |-> 0]

\* a nil *http.Client
NoClient == [auth |-> "none"]

Start ==
    /\ \E f \in Flags :
         /\ Token = f.Token
         /\ Password = f.Password
         /\ Username = f.Username
         /\ NoLogin = f.NoLogin
         /\ Organization = f.scope.Organization
         /\ Repository = f.scope.Repository
    /\ Since \in SinceFlags
    \* one endpoint serves any collection of at most MaxItems items, the other
    \* a small one; with a flag that does not parse, or with other credentials
    \* or another repository than the plain ones, the first serves pages
    \* without items; with the flag of the scenario, the items are those of
    \* the scenario
    /\ \E shape \in Shapes(IF /\ TimeParse(Since).ok
                              /\ Token = PlainFlags.Token
                              /\ Password = PlainFlags.Password
                              /\ Username = PlainFlags.Username
                              /\ NoLogin = PlainFlags.NoLogin
                              /\ Organization = PlainFlags.scope.Organization
                           THEN MaxItems ELSE 0) :
         \E flat \in (IF Since = ScenarioSince
                      THEN {f \in {ScenarioItems} : Len(f) = SumSeq(shape)}
                      ELSE [1..SumSeq(shape) -> Times]),
            last \in 0..Len(shape),
            small \in SmallCollections, side \in Kinds :
            remote = [k \in Kinds |-> IF k = side THEN Collection(shape, flat, last)
                                                  ELSE small]
    /\ pc = "auth"
    /\ httpClient = NoClient
    /\ cur = TypeIssue
    /\ sinceDateTime = 0
    /\ options = NewOptions
    /\ items = <<>>
    /\ response = [NextPage |-> 0]
    /\ i = 1
    /\ err = "nil"
    /\ w = <<>>
    /\ werr = "nil"
    /\ written = <<>>
    /\ stdout = <<>>
    /\ requests = <<>>
    /\ calls = <<>>
    /\ first = <<>>

Init == hist = TRUE /\ Start

\* the same runs with no history kept: the state is the program's alone
LiveInit == hist = FALSE /\ Start

IterateKeepsOptions(kind) ==
    /\ cur' = kind
    /\ pc' = "fetch"
    /\ UNCHANGED options

\* the start of iterateIssues / iteratePullRequests: fresh options
Iterate(kind) ==
    /\ cur' = kind
    /\ options' = NewOptions
    /\ pc' = "fetch"

\* return from iterateIssues / iteratePullRequests
Return(e) ==
    /\ err' = e
    /\ pc' = "returned"

gitHubHTTPClientPrefersPassword(token, username, password) ==
    IF username # "" /\ password # ""
    THEN [auth |-> "basic", username |-> username, password |-> password]
    ELSE IF token # "" THEN [auth |-> "oauth2", token |-> token]
    ELSE NoClient

\* gitHubHTTPClient(): an oauth2 client of the token when there is one, else
\* a basic-authentication client of the user name and the password when
\* there are both, else nil
gitHubHTTPClient(token, username, password) ==
    IF token # "" THEN [auth |-> "oauth2", token |-> token]
    ELSE IF username # "" /\ password # ""
    THEN [auth |-> "basic", username |-> username, password |-> password]
    ELSE NoClient

RefusesAlways(client, nologin) == client = NoClient

\* httpClient == nil && CmdFlags.NoLogin == false
Refuses(client, nologin) == client = NoClient /\ nologin = FALSE

\* main up to github.NewClient(httpClient): the password of the environment,
\* the http client, and log.Fatal when there is none and no -n
Authenticate ==
    /\ pc = "auth"
    /\ httpClient' = gitHubHTTPClient(Token, Username, Password)
    /\ IF Refuses(httpClient', NoLogin)
       THEN /\ err' = "auth"
            /\ pc' = "fatal"
       ELSE /\ pc' = "parse"
            /\ UNCHANGED err
    /\ UNCHANGED <<env, first, cur, sinceDateTime, options, items, response, i,
                   w, werr, written, stdout,
                   requests, calls>>

ParseSinceIgnoresError ==
    /\ pc = "parse"
    /\ sinceDateTime' = IF TimeParse(Since).ok THEN TimeParse(Since).t ELSE Date(1, 1, 1)
    /\ Iterate(TypeIssue)
    /\ UNCHANGED <<env, first, httpClient, items, response, i, err, w, werr, written,
                   stdout, requests, calls>>

\* sinceDateTime, err := time.Parse(CmdFlagsSinceFormat, CmdFlags.Since),
\* log.Fatal on an error, else the call of iterateIssues
ParseSince ==
    /\ pc = "parse"
    /\ LET r == TimeParse(Since)
       IN  IF r.ok
           THEN /\ sinceDateTime' = r.t
                /\ Iterate(TypeIssue)
                /\ UNCHANGED err
           ELSE /\ err' = "parse"
                /\ pc' = "fatal"
                /\ UNCHANGED <<sinceDateTime, cur, options>>
    /\ UNCHANGED <<env, first, httpClient, items, response, i, w, werr, written,
                   stdout, requests, calls>>

ListFailedRetry ==
    /\ pc' = "fetch"
    /\ UNCHANGED err

\* if err != nil { return err }
ListFailed == Return("fetch")

\* a call to the API as the log keeps it: the endpoint, the client's
\* credentials, the arguments and whether it succeeded
Request(kind, ok) ==
    [kind |-> kind, client |-> httpClient, owner |-> Organization,
     repo |-> Repository, options |-> options, ok |-> ok]

\* client.Issues.ListByRepo / client.PullRequests.List and the err check
\* after it: a page and its response, or an error the traversal returns
ListPage(kind) ==
    /\ pc = "fetch"
    /\ cur = kind
    /\ Len(OfKind(requests, kind)) < MaxFetches
    /\ \/ /\ LET a == Answer(remote[kind], options.Page)
             IN  /\ items' = a.items
                 /\ response' = [NextPage |-> a.NextPage]
          /\ i' = 1
          /\ pc' = "items"
          /\ requests' = Log(requests, Request(kind, TRUE))
          /\ UNCHANGED err
       \/ /\ ListFailed
          /\ requests' = Log(requests, Request(kind, FALSE))
          /\ UNCHANGED <<items, response, i>>
    /\ UNCHANGED <<env, first, httpClient, cur, sinceDateTime, options, w, werr,
                   written, stdout, calls>>

\* the page of the collection the request for options.Page is answered with
PageOf(p) == IF p = 0 THEN 1 ELSE p

RowOfIssue(kind, page, idx, createdAt) ==
    [type |-> TypeIssue, page |-> page, idx |-> idx, created |-> createdAt]

\* the row the callback builds of an item
Row(kind, page, idx, createdAt) ==
    [type |-> kind, page |-> page, idx |-> idx, created |-> createdAt]

OlderItemSkipped ==
    /\ i' = i + 1
    /\ UNCHANGED <<pc, err>>

\* if i.CreatedAt.Before(since) { return nil }
OlderItem ==
    /\ Return("nil")
    /\ UNCHANGED i

WriteErrorReturned ==
    /\ werr' = "write"
    /\ Return("write")
    /\ UNCHANGED <<i, w, stdout>>

\* the write of the full buffer to os.Stdout fails and w.Write returns the
\* error, which the callback drops: the loop goes on
WriteError ==
    /\ werr' = "write"
    /\ i' = i + 1
    /\ UNCHANGED <<pc, err, w, stdout>>

\* the write to os.Stdout finds the pipe closed: the Go runtime ends the
\* process with SIGPIPE
BrokenPipe ==
    /\ pc' = "killed"
    /\ UNCHANGED <<i, err, w, werr, stdout>>

\* w.Write(row) in the callback.  The writer buffers: a row that does not
\* fit sends the buffer to os.Stdout first, and once a write to os.Stdout
\* has failed the writer takes no row any more.
Write(row) ==
    IF werr # "nil"
    THEN /\ i' = i + 1
         /\ UNCHANGED <<pc, err, w, werr, stdout>>
    ELSE IF Len(w) < BufRows
    THEN /\ w' = Append(w, row)
         /\ i' = i + 1
         /\ UNCHANGED <<pc, err, werr, stdout>>
    ELSE \/ /\ stdout' = LogAll(stdout, w)
            /\ w' = <<row>>
            /\ i' = i + 1
            /\ UNCHANGED <<pc, err, werr>>
         \/ WriteError
         \/ BrokenPipe

\* one turn of the range loop over the page: return nil at an item created
\* before since, else the callback fn(i), which writes the item's row to the
\* csv.Writer.
VisitItem(kind) ==
    /\ pc = "items"
    /\ cur = kind
    /\ i <= Len(items)
    /\ IF Before(items[i], sinceDateTime)
       THEN /\ OlderItem
            /\ UNCHANGED <<w, werr, written, stdout, calls>>
       ELSE LET row == Row(kind, PageOf(options.Page), i, items[i])
            IN  /\ calls' = Log(calls, [kind |-> kind, page |-> PageOf(options.Page),
                                       idx |-> i, createdAt |-> items[i]])
                /\ written' = Log(written, row)
                /\ Write(row)
    /\ UNCHANGED <<env, first, httpClient, cur, sinceDateTime, options, items,
                   response, requests>>

NoNextPageOffByOne(resp) == resp.NextPage = 1

NoNextPageAlways(resp) == TRUE

NoNextPageWhenEmpty(resp) == items = <<>>

\* response.NextPage == 0
NoNextPage(resp) == resp.NextPage = 0

AdvanceForgotten(opts, resp) == opts

AdvanceByOne(opts, resp) == [opts EXCEPT !.Page = opts.Page + 1]

AdvanceWithNewOptions(opts, resp) ==
    [opts EXCEPT !.Page = resp.NextPage, !.PerPage = 30]

\* options.Page = response.NextPage
Advance(opts, resp) == [opts EXCEPT !.Page = resp.NextPage]

\* after the range loop: break when response.NextPage == 0 (and return nil),
\* else options.Page = response.NextPage and the next turn of the for loop
NextPage(kind) ==
    /\ pc = "items"
    /\ cur = kind
    /\ i > Len(items)
    /\ IF NoNextPage(response)
       THEN /\ Return("nil")
            /\ UNCHANGED options
       ELSE /\ options' = Advance(options, response)
            /\ pc' = "fetch"
            /\ UNCHANGED err
    /\ UNCHANGED <<env, first, httpClient, cur, sinceDateTime, items, response, i,
                   w, werr, written, stdout, requests, calls>>

AfterIssuesIgnoresError ==
    /\ pc = "returned"
    /\ cur = TypeIssue
    /\ Iterate(TypePullRequest)
    /\ UNCHANGED <<env, first, httpClient, sinceDateTime, items, response, i, err,
                   w, werr, written, stdout, requests, calls>>

\* main after iterateIssues: log.Fatal(err), which exits without running
\* the deferred w.Flush(), or the call of iteratePullRequests
AfterIssues ==
    /\ pc = "returned"
    /\ cur = TypeIssue
    /\ IF err # "nil"
       THEN /\ pc' = "fatal"
            /\ UNCHANGED <<cur, options>>
       ELSE Iterate(TypePullRequest)
    /\ UNCHANGED <<env, first, httpClient, sinceDateTime, items, response, i, err,
                   w, werr, written, stdout, requests, calls>>

\* main after iteratePullRequests: log.Fatal(err), or the return of main,
\* which runs the deferred w.Flush(): the buffer is written to os.Stdout,
\* unless it is empty or a write has failed before
AfterPullRequests ==
    /\ pc = "returned"
    /\ cur = TypePullRequest
    /\ IF err # "nil"
       THEN /\ pc' = "fatal"
            /\ UNCHANGED <<w, werr, stdout>>
       ELSE IF werr # "nil" \/ w = <<>>
       THEN /\ pc' = "exit"
            /\ UNCHANGED <<w, werr, stdout>>
       ELSE \/ /\ pc' = "exit"
               /\ stdout' = LogAll(stdout, w)
               /\ w' = <<>>
               /\ UNCHANGED werr
            \/ /\ pc' = "exit"
               /\ werr' = "write"
               /\ UNCHANGED <<w, stdout>>
            \/ BrokenPipe
    /\ UNCHANGED <<env, first, httpClient, cur, sinceDateTime, options, items, response,
                   i, err, written, requests, calls>>

Next ==
    \/ Authenticate
    \/ ParseSince
    \/ ListPage(TypeIssue)
    \/ VisitItem(TypeIssue)
    \/ NextPage(TypeIssue)
    \/ AfterIssues
    \/ ListPage(TypePullRequest)
    \/ VisitItem(TypePullRequest)
    \/ NextPage(TypePullRequest)
    \/ AfterPullRequests

Spec == Init /\ [][Next]_vars

\* The program is one thread that runs until it exits: a step that can be
\* taken is taken.
LiveSpec == LiveInit /\ [][Next]_vars /\ WF_vars(Next)

\* Two traversals, one after the other, whatever the first one returned:
\* main up to the return of iterateIssues, and then another call of
\* iterateIssues or of iteratePullRequests with the same client and the same
\* since.  What the first one did is set aside in first.
Again ==
    /\ pc = "returned"
    /\ first = <<>>
    /\ first' = <<[kind |-> cur, requests |-> requests, calls |-> calls, err |-> err]>>
    /\ requests' = <<>>
    /\ calls' = <<>>
    /\ \E kind \in Kinds : Iterate(kind)
    /\ UNCHANGED <<env, httpClient, sinceDateTime, items, response, i, err,
                   w, werr, written, stdout>>

TwiceNext ==
    \/ Authenticate
    \/ ParseSince
    \/ ListPage(TypeIssue)
    \/ VisitItem(TypeIssue)
    \/ NextPage(TypeIssue)
    \/ ListPage(TypePullRequest)
    \/ VisitItem(TypePullRequest)
    \/ NextPage(TypePullRequest)
    \/ Again

TwiceSpec == Init /\ [][TwiceNext]_vars

-----------------------------------------------------------------------------
(* What the claims are stated in *)

\* the calls made to endpoint kind, the callback invocations of its traversal
Reqs(kind) == OfKind(requests, kind)

Calls(kind) == OfKind(calls, kind)

\* the traversal of kind was entered
Started(kind) ==
    IF kind = TypeIssue THEN pc \notin {"auth", "parse"} /\ err \notin {"auth", "parse"}
    ELSE cur = TypePullRequest

\* the traversal of kind has returned
Returned(kind) ==
    /\ Started(kind)
    /\ IF kind = TypeIssue
       THEN cur = TypePullRequest \/ pc \in {"returned", "fatal"}
       ELSE pc \in {"returned", "fatal", "exit"}

\* what it returned: "nil" or the error
Result(kind) ==
    IF kind = TypeIssue /\ cur = TypePullRequest THEN "nil" ELSE err

Succeeded(kind) == Returned(kind) /\ Result(kind) = "nil"

\* no call to endpoint kind has failed
NoFetchFailed(kind) ==
    LET rs == Reqs(kind)
    IN  \A n \in 1..Len(rs) : rs[n].ok

\* the items of page p of the collection of kind, as the callback sees them
ItemsOfPage(kind, p) ==
    [n \in 1..Len(remote[kind].pages[p]) |->
        [kind |-> kind, page |-> p, idx |-> n, createdAt |-> remote[kind].pages[p][n]]]

\* the items of the pages pgs, one page after the other
RECURSIVE ItemsOfPages(_, _)
ItemsOfPages(kind, pgs) ==
    IF pgs = <<>> THEN <<>>
    ELSE ItemsOfPage(kind, pgs[1]) \o ItemsOfPages(kind, Tail(pgs))

\* the pages the collection c presents from page p on, following the next
\* pages it reports, n pages at most
RECURSIVE Walk(_, _, _)
Walk(c, p, n) ==
    IF n = 0 THEN <<>>
    ELSE <<PageOf(p)>> \o
            (IF Answer(c, p).NextPage = 0 THEN <<>>
             ELSE Walk(c, Answer(c, p).NextPage, n - 1))

\* the items of the collection of kind in the order of its pages, as far as
\* MaxFetches calls reach
Presented(kind) == ItemsOfPages(kind, Walk(remote[kind], 0, MaxFetches))

\* the items of seq ahead of the first one created before t
RECURSIVE UntilOlder(_, _)
UntilOlder(seq, t) ==
    IF seq = <<>> \/ seq[1].createdAt < t THEN <<>>
    ELSE <<seq[1]>> \o UntilOlder(Tail(seq), t)

IsPrefix(a, b) == Len(a) <= Len(b) /\ a = SubSeq(b, 1, Len(a))

\* the pages the successful ones of the first n calls to endpoint kind returned
FetchedPages(kind, n) ==
    LET ok == SelectSeq(SubSeq(Reqs(kind), 1, n), LAMBDA r : r.ok)
    IN  [m \in 1..Len(ok) |-> PageOf(ok[m].options.Page)]

\* every item of every page, in the order of the pages
AllItems(kind) ==
    ItemsOfPages(kind, [p \in 1..Len(remote[kind].pages) |-> p])

\* creation times never increase along seq
NonIncreasing(seq) ==
    \A m, n \in 1..Len(seq) : m < n => seq[m].createdAt >= seq[n].createdAt

-----------------------------------------------------------------------------
(* C1 *)

\* C1: a traversal invokes the callback on the items in the order the pages
\* present them; it never invokes it on the first item created strictly
\* before the cutoff nor on any item after that one, in the same page or a
\* later one; and when it has returned without a failed fetch it has invoked
\* it on every item ahead of that one.
C1_OrderAndStop ==
    \A kind \in Kinds :
        Started(kind) =>
            LET cs == Calls(kind)
                expected == UntilOlder(Presented(kind), sinceDateTime)
            IN  /\ IsPrefix(cs, expected)
                /\ (Returned(kind) /\ NoFetchFailed(kind)) => cs = expected

\* a traversal of pages in descending order has returned at an item created
\* before the cutoff, after a callback; the item has an item after it in its
\* page, and a page after its page
C1_Witness ==
    \E kind \in Kinds :
        /\ Succeeded(kind)
        /\ NonIncreasing(AllItems(kind))
        /\ Len(Calls(kind)) >= 1
        /\ Len(remote[kind].pages) >= 2
        /\ Len(Reqs(kind)) = 1
        /\ Len(Calls(kind)) + 2 <= Len(remote[kind].pages[1])
        /\ Before(remote[kind].pages[1][Len(Calls(kind)) + 1], sinceDateTime)

-----------------------------------------------------------------------------
(* C2 *)

\* C2: when creation times never increase within a page and from a page to
\* the next, a traversal that has returned success has passed to the callback
\* every item of the collection that was not created before the cutoff.
C2_NoMissedItems ==
    \A kind \in Kinds :
        Succeeded(kind) =>
            LET cs == Calls(kind)
                all == AllItems(kind)
            IN  NonIncreasing(all) =>
                    \A n \in 1..Len(all) :
                        all[n].createdAt >= sinceDateTime =>
                            \E m \in 1..Len(cs) : cs[m] = all[n]

\* a traversal over two pages in descending order has returned success at an
\* item of the second page, with an item created at the cutoff passed on
C2_Witness ==
    \E kind \in Kinds :
        /\ Succeeded(kind)
        /\ NonIncreasing(AllItems(kind))
        /\ Len(Reqs(kind)) = 2
        /\ Len(Calls(kind)) < Len(AllItems(kind))
        /\ \E m \in 1..Len(Calls(kind)) : Calls(kind)[m].createdAt = sinceDateTime

-----------------------------------------------------------------------------
(* C3 *)

\* the cutoff is earlier than the creation of every item of the collection
CutoffEarlier(kind) ==
    \A p \in 1..Len(remote[kind].pages) :
        \A n \in 1..Len(remote[kind].pages[p]) :
            sinceDateTime < remote[kind].pages[p][n]

-----------------------------------------------------------------------------
(* C4 *)

\* C4: when a call to the API fails, the traversal has returned that error
\* at once: the failed call is the last call of the run, the callback has
\* been invoked on every item of the pages fetched before it and on nothing
\* else, in every state from then on.
C4_FetchErrorAborts ==
    \A kind \in Kinds :
        LET rs == Reqs(kind)
        IN  \A n \in 1..Len(rs) :
                ~rs[n].ok =>
                    /\ n = Len(rs)
                    /\ requests[Len(requests)] = rs[n]
                    /\ Returned(kind)
                    /\ Result(kind) = "fetch"
                    /\ Calls(kind) = ItemsOfPages(kind, FetchedPages(kind, n - 1))

\* the second call of a traversal has failed, after callbacks on the items
\* of the first page, and main has stopped
C4_Witness ==
    \E kind \in Kinds :
        /\ Len(Reqs(kind)) = 2
        /\ ~Reqs(kind)[2].ok
        /\ Len(Calls(kind)) >= 1
        /\ pc = "fatal"

-----------------------------------------------------------------------------
(* C5 *)

\* the rows the callbacks have written
RowsWritten ==
    [n \in 1..Len(calls) |->
        Row(calls[n].kind, calls[n].page, calls[n].idx, calls[n].createdAt)]

\* C5: when the run has stopped on a fetch error, every row a callback wrote
\* before the error is in the output.  (The code does not keep to it: the
\* rows still in the csv.Writer's buffer are lost, since log.Fatal exits
\* without running the deferred Flush.)
C5_RowsBeforeErrorInOutput ==
    (pc = "fatal" /\ err = "fetch") => stdout = RowsWritten

-----------------------------------------------------------------------------
(* C6 *)

\* C6 as it stands: every traversal that is about to call the API returns.
C6_EveryTraversalReturns == (pc = "fetch") ~> (pc = "returned")

\* C6, amended: whenever the next pages the remote reports lead from the
\* first page to a page that reports none, a traversal comes to an end: it
\* returns, or a write to a closed pipe has ended the process.
C6_TraversalReturnsOnFiniteChain ==
    (pc = "fetch" /\ remote[cur].last = 0) ~> (pc \in {"returned", "killed"})

\* a traversal has returned success after it asked for the second page of a
\* collection whose second page reports no next page
C6_Witness ==
    /\ pc = "returned"
    /\ err = "nil"
    /\ remote[cur].last = 0
    /\ Len(remote[cur].pages) = 2
    /\ options.Page = 2
    /\ Len(items) >= 1
    /\ i > Len(items)

-----------------------------------------------------------------------------
(* C7 *)

\* C7: a call after the first one of a traversal is made only when the call
\* before it succeeded and reported the page now asked for as next page, and
\* every item of every page fetched so far was not created before the cutoff
\* and has been passed to the callback.
C7_NoOverFetching ==
    \A kind \in Kinds :
        LET rs == Reqs(kind)
        IN  \A n \in 2..Len(rs) :
                LET before == ItemsOfPages(kind, FetchedPages(kind, n - 1))
                    prev == rs[n - 1]
                IN  /\ prev.ok
                    /\ Answer(remote[kind], prev.options.Page).NextPage # 0
                    /\ Answer(remote[kind], prev.options.Page).NextPage
                            = rs[n].options.Page
                    /\ \A m \in 1..Len(before) : before[m].createdAt >= sinceDateTime
                    /\ IsPrefix(before, Calls(kind))

\* a traversal has returned at an item created before the cutoff in its
\* second page, whose collection has a page more
C7_Witness ==
    \E kind \in Kinds :
        /\ Succeeded(kind)
        /\ Len(Reqs(kind)) = 2
        /\ Len(Calls(kind)) >= 1
        /\ Len(Calls(kind)) < Len(ItemsOfPages(kind, FetchedPages(kind, 2)))
        /\ Answer(remote[kind], 2).NextPage # 0

-----------------------------------------------------------------------------
(* C8 *)

\* C8: a call answered with no next page is the last call of its traversal,
\* the calls of the traversal are then as many as the collection has pages,
\* and the traversal, once it has returned, has returned success.
C8_NoFetchAfterLastPage ==
    \A kind \in Kinds :
        LET rs == Reqs(kind)
        IN  \A n \in 1..Len(rs) :
                (rs[n].ok /\ Answer(remote[kind], rs[n].options.Page).NextPage = 0) =>
                    /\ n = Len(rs)
                    /\ n = Len(remote[kind].pages)
                    /\ Returned(kind) => Result(kind) = "nil"

\* a collection of two pages of the same size, every item passed to the
\* callback: the traversal has returned success after two calls
C8_Witness ==
    \E kind \in Kinds :
        /\ Succeeded(kind)
        /\ Len(remote[kind].pages) = 2
        /\ remote[kind].last = 0
        /\ Len(remote[kind].pages[1]) >= 1
        /\ Len(remote[kind].pages[1]) = Len(remote[kind].pages[2])
        /\ Calls(kind) = AllItems(kind)
        /\ Len(Reqs(kind)) = 2

-----------------------------------------------------------------------------
(* C9 *)

\* the cutoff is later than the creation of every item of the collection
CutoffLater(kind) ==
    \A p \in 1..Len(remote[kind].pages) :
        \A n \in 1..Len(remote[kind].pages[p]) :
            remote[kind].pages[p][n] < sinceDateTime

\* C9 as it stands: with a cutoff later than every item's creation the
\* traversal invokes the callback zero times, and has returned success
\* when it has returned.
C9_NoCallbackAndSuccess ==
    \A kind \in Kinds :
        (Started(kind) /\ CutoffLater(kind)) =>
            /\ Calls(kind) = <<>>
            /\ Returned(kind) => Result(kind) = "nil"

\* C9, amended: with a cutoff later than every item's creation the traversal
\* invokes the callback zero times, and has returned success when it has
\* returned and no fetch has failed.
C9_NoCallbackAndSuccessUnlessFetchFails ==
    \A kind \in Kinds :
        (Started(kind) /\ CutoffLater(kind)) =>
            /\ Calls(kind) = <<>>
            /\ (Returned(kind) /\ NoFetchFailed(kind)) => Result(kind) = "nil"

\* a traversal has returned success at the first item of the second page,
\* every item of the collection created before the cutoff
C9_Witness ==
    \E kind \in Kinds :
        /\ Succeeded(kind)
        /\ CutoffLater(kind)
        /\ Len(AllItems(kind)) >= 2
        /\ Len(Reqs(kind)) = 2

-----------------------------------------------------------------------------
(* C10 *)

\* the first call of the traversal was answered with an empty page
EmptyFirstPage(kind) ==
    LET rs == Reqs(kind)
    IN  /\ Len(rs) >= 1
        /\ rs[1].ok
        /\ Answer(remote[kind], rs[1].options.Page).items = <<>>

\* what C10 says of a traversal: one call, no callback, success
EndsAtFirstPage(kind) ==
    /\ Len(Reqs(kind)) = 1
    /\ Calls(kind) = <<>>
    /\ Returned(kind) => Result(kind) = "nil"

\* C10 as it stands: an empty first page ends the traversal.
C10_EmptyFirstPageEnds ==
    \A kind \in Kinds : EmptyFirstPage(kind) => EndsAtFirstPage(kind)

\* C10, amended: an empty first page that reports no next page ends the
\* traversal: no other page is fetched, the callback is not invoked, and
\* the traversal returns success.
C10_EmptyLastFirstPageEnds ==
    \A kind \in Kinds :
        (EmptyFirstPage(kind) /\ Answer(remote[kind], Reqs(kind)[1].options.Page).NextPage = 0)
            => EndsAtFirstPage(kind)

\* the traversal of a collection whose only page is empty has returned
C10_Witness ==
    \E kind \in Kinds :
        /\ EmptyFirstPage(kind)
        /\ remote[kind].last = 0
        /\ Len(remote[kind].pages) = 1
        /\ Succeeded(kind)

-----------------------------------------------------------------------------
(* C11 *)

\* the creation times of the items of seq
CreatedAt(seq) == [n \in 1..Len(seq) |-> seq[n].createdAt]

\* C11: the cutoff is an inclusive lower bound.  The callback is never
\* invoked on an item created strictly before the cutoff; a traversal that
\* has returned without a failed fetch and left items out has stopped at an
\* item created strictly before the cutoff; an item created at the cutoff
\* that no older item precedes has been passed to the callback; and in the
\* scenario (cutoff 2024-01-01, items of 2024-02-01, 2024-01-15, 2023-12-20)
\* the callback has been invoked on the first two items only.
C11_CutoffInclusive ==
    \A kind \in Kinds :
        Started(kind) =>
            LET cs == Calls(kind)
                ps == Presented(kind)
                done == Returned(kind) /\ NoFetchFailed(kind)
            IN  /\ \A n \in 1..Len(cs) : cs[n].createdAt >= sinceDateTime
                /\ (done /\ Len(cs) < Len(ps)) =>
                        ps[Len(cs) + 1].createdAt < sinceDateTime
                /\ done =>
                        \A n \in 1..Len(ps) :
                            (/\ ps[n].createdAt = sinceDateTime
                             /\ \A m \in 1..n : ps[m].createdAt >= sinceDateTime)
                                => (n <= Len(cs) /\ cs[n] = ps[n])
                /\ (done /\ Since = ScenarioSince /\ CreatedAt(ps) = ScenarioItems) =>
                        CreatedAt(cs) = SubSeq(ScenarioItems, 1, 2)

\* a traversal has returned success with the callback invoked on an item
\* created after the cutoff and on an item created at the cutoff, in this
\* order, and on nothing else, the next item being older than the cutoff
C11_Witness ==
    \E kind \in Kinds :
        /\ Succeeded(kind)
        /\ Len(Calls(kind)) = 2
        /\ Calls(kind)[1].createdAt > sinceDateTime
        /\ Calls(kind)[2].createdAt = sinceDateTime
        /\ Len(Presented(kind)) >= 3
        /\ Presented(kind)[3].createdAt < sinceDateTime

\* the scenario has run: three issues in one collection, cutoff 2024-01-01
C11_ScenarioReached ==
    /\ Since = ScenarioSince
    /\ Succeeded(TypeIssue)
    /\ CreatedAt(Presented(TypeIssue)) = ScenarioItems
    /\ Len(Calls(TypeIssue)) = 2

-----------------------------------------------------------------------------
(* C12 *)

\* in log, no entry of the issues follows an entry of the pull requests;
\* label(e) is the traversal the entry e is of
IssuesFirst(log, label(_)) ==
    \A m, n \in 1..Len(log) :
        (m < n /\ label(log[m]) = TypePullRequest) => label(log[n]) = TypePullRequest

\* C12: the two traversals run one after the other.  When a call to the
\* pull-requests endpoint has been made, the issues traversal is over: none
\* of its calls failed, it has invoked the callback on every item it was to
\* invoke it on, and every call to the issues endpoint came before; every
\* row of an issue precedes every row of a pull request, in the output and
\* in the writer; and when the issues traversal has returned a fetch error
\* no call to the pull-requests endpoint is made and the run has stopped.
C12_IssuesThenPullRequests ==
    /\ Reqs(TypePullRequest) # <<>> =>
            /\ Reqs(TypeIssue) # <<>>
            /\ NoFetchFailed(TypeIssue)
            /\ Succeeded(TypeIssue)
            /\ Calls(TypeIssue) = UntilOlder(Presented(TypeIssue), sinceDateTime)
    /\ IssuesFirst(requests, LAMBDA e : e.kind)
    /\ IssuesFirst(calls, LAMBDA e : e.kind)
    /\ IssuesFirst(stdout \o w, LAMBDA e : e.type)
    /\ ~NoFetchFailed(TypeIssue) =>
            /\ Reqs(TypePullRequest) = <<>>
            /\ Calls(TypePullRequest) = <<>>
            /\ cur = TypeIssue
            /\ pc \in {"returned", "fatal"}
            /\ pc = "fatal" => ~ENABLED Next

\* the run has ended with rows of issues and rows of pull requests in the
\* output, after more than one call to an endpoint
C12_Witness ==
    /\ pc = "exit"
    /\ Len(requests) >= 3
    /\ \E n \in 1..Len(stdout) : stdout[n].type = TypeIssue
    /\ \E n \in 1..Len(stdout) : stdout[n].type = TypePullRequest

\* the run has stopped on a failed call of the issues traversal, with pull
\* requests to fetch
C12_StoppedAtIssues ==
    /\ pc = "fatal"
    /\ ~NoFetchFailed(TypeIssue)
    /\ Len(Calls(TypeIssue)) >= 1
    /\ Len(AllItems(TypePullRequest)) >= 1

-----------------------------------------------------------------------------
(* C14 *)

\* C14: with a -s flag that time.Parse rejects the run is fatal before any
\* traversal begins: no call is made to either endpoint, the callback is not
\* invoked, no row is written or output, and the run does not get past the
\* parsing of the flag.
C14_UnparseableSinceIsFatal ==
    ~TimeParse(Since).ok =>
        /\ requests = <<>>
        /\ calls = <<>>
        /\ w = <<>>
        /\ stdout = <<>>
        /\ pc \in {"auth", "parse", "fatal"}
        /\ pc = "fatal" => (err \in {"auth", "parse"} /\ ~ENABLED Next)

\* the run has stopped on the flag, with an issue at the remote it would
\* have fetched
C14_Witness ==
    /\ pc = "fatal"
    /\ err = "parse"
    /\ Len(AllItems(TypeIssue)) >= 1

-----------------------------------------------------------------------------
(* C18 *)

\* no token is set, and the user name and the password are not both set
NoCredentials == Token = "" /\ ~(Username # "" /\ Password # "")

\* C18: without a token and without both a user name and a password, the
\* run refuses to start when -n is not given (no call to the API, no
\* callback, no row written or output, log.Fatal), and with -n it is not
\* refused and sends its calls with no credentials; with a token, the run is
\* not refused and every call is sent with the token, whatever the user
\* name and the password are.
C18_CredentialGate ==
    /\ (NoCredentials /\ ~NoLogin) =>
            /\ requests = <<>>
            /\ calls = <<>>
            /\ w = <<>>
            /\ stdout = <<>>
            /\ pc \in {"auth", "fatal"}
            /\ pc = "fatal" => (err = "auth" /\ ~ENABLED Next)
    /\ (NoCredentials /\ NoLogin) =>
            /\ err # "auth"
            /\ pc = "auth" \/ httpClient = NoClient
            /\ \A n \in 1..Len(requests) : requests[n].client = NoClient
    /\ Token # "" =>
            /\ err # "auth"
            /\ pc = "auth" \/ httpClient = [auth |-> "oauth2", token |-> Token]
            /\ \A n \in 1..Len(requests) :
                    requests[n].client = [auth |-> "oauth2", token |-> Token]

\* a run with -n and a user name but neither password nor token has ended
\* with a row in the output
C18_Witness ==
    /\ NoCredentials
    /\ NoLogin
    /\ Username # ""
    /\ pc = "exit"
    /\ Len(requests) >= 2
    /\ Len(stdout) >= 1

\* a run without credentials and without -n has been refused, with an issue
\* at the remote and a -s flag that parses
C18_Refused ==
    /\ NoCredentials
    /\ ~NoLogin
    /\ pc = "fatal"
    /\ TimeParse(Since).ok
    /\ Len(AllItems(TypeIssue)) >= 1

\* a run with a token, a user name and a password has made a call
C18_TokenPreferred ==
    /\ Token # ""
    /\ Username # ""
    /\ Password # ""
    /\ Len(requests) >= 1

-----------------------------------------------------------------------------
(* C17 *)

\* the next page the remote reported in its answer to the call r
Reported(kind, r) == Answer(remote[kind], r.options.Page).NextPage

\* C17: within a traversal, every call after the first follows a call that
\* succeeded and asks for exactly the next page the answer to that call
\* reported, with nothing else of the call changed; sort, direction, state
\* and page size are created, desc, all and 100 in every call; and a page
\* asked for before is asked for again only when the remote has reported it
\* as next page again, in its answer to the call just before.
C17_CursorFollowsNextPage ==
    \A kind \in Kinds :
        LET rs == Reqs(kind)
        IN  /\ \A n \in 1..Len(rs) :
                    /\ rs[n].options.Sort = "created"
                    /\ rs[n].options.Direction = "desc"
                    /\ rs[n].options.State = "all"
                    /\ rs[n].options.PerPage = 100
            /\ \A n \in 2..Len(rs) :
                    /\ rs[n - 1].ok
                    /\ Reported(kind, rs[n - 1]) # 0
                    /\ rs[n] = [rs[n - 1] EXCEPT
                                    !.options.Page = Reported(kind, rs[n - 1]),
                                    !.ok = rs[n].ok]
            /\ \A m, n \in 1..Len(rs) :
                    (m < n /\ PageOf(rs[m].options.Page) = PageOf(rs[n].options.Page)) =>
                        Reported(kind, rs[n - 1]) = PageOf(rs[m].options.Page)

\* a traversal has asked for the first page, for the second page and for
\* the first page again, which the second page reported as its next page
C17_Witness ==
    \E kind \in Kinds :
        /\ Len(Reqs(kind)) = 3
        /\ Reqs(kind)[2].options.Page = 2
        /\ Reqs(kind)[3].options.Page = 1
        /\ remote[kind].last = 1
        /\ Len(Calls(kind)) >= 2

-----------------------------------------------------------------------------
(* C15 *)

\* C15: every invocation of the callback hands exactly one row to the
\* writer, the row of the item it was invoked on, labelled "Issue" when the
\* issues traversal invoked it and "Pull Request" when the pull-requests
\* traversal did; the rows that are in the output or in the writer's buffer
\* are the first of these rows, in the order of the invocations, and all of
\* them as long as no write to the output has failed.
C15_OneLabelledRowPerCallback ==
    /\ Len(written) = Len(calls)
    /\ \A n \in 1..Len(calls) :
            /\ written[n].type = (IF calls[n].kind = TypeIssue THEN "Issue"
                                                                ELSE "Pull Request")
            /\ written[n].page = calls[n].page
            /\ written[n].idx = calls[n].idx
            /\ written[n].created = calls[n].createdAt
    /\ IsPrefix(stdout \o w, written)
    /\ (werr = "nil" /\ pc # "killed") => stdout \o w = written
    /\ (werr = "nil" /\ pc = "exit") => stdout = written

\* the run has ended with three rows of issues and a row of a pull request
\* in the output
C15_Witness ==
    /\ pc = "exit"
    /\ Len(stdout) = 4
    /\ stdout[3].type = "Issue"
    /\ stdout[4].type = "Pull Request"
    /\ Len(Calls(TypeIssue)) = 3

-----------------------------------------------------------------------------
(* C19 *)

\* the traversal of kind has fetched the pages and invoked the callback on
\* the items its remote and the cutoff alone determine, and has returned
\* success unless a fetch has failed
AsWithoutWriteFailure(kind) ==
    LET cs == Calls(kind)
        expected == UntilOlder(Presented(kind), sinceDateTime)
    IN  /\ IsPrefix(cs, expected)
        /\ IsPrefix(FetchedPages(kind, Len(Reqs(kind))),
                    Walk(remote[kind], 0, MaxFetches))
        /\ (Returned(kind) /\ NoFetchFailed(kind)) =>
                (cs = expected /\ Result(kind) = "nil")
        /\ Returned(kind) => Result(kind) \in {"nil", "fetch"}

\* C19 as it stands: no failed write of a row aborts the traversal, changes
\* the pages it fetches or the items it passes to the callback, or makes it
\* return anything but success.
C19_WriteFailureNeverAborts ==
    /\ pc # "killed"
    /\ werr # "nil" => \A kind \in Kinds : Started(kind) => AsWithoutWriteFailure(kind)

\* C19, amended: a write of a row that fails with an error (which w.Write
\* returns and the callback drops) does not abort the traversal nor change
\* the pages it fetches or the items it passes to the callback, and the
\* traversal still returns success unless a fetch fails.  (A write to a
\* closed pipe is not such a failure: it ends the process.)
C19_WriteErrorIgnored ==
    werr # "nil" => \A kind \in Kinds : Started(kind) => AsWithoutWriteFailure(kind)

\* the run has ended after a write failed at the third issue of the first
\* page: the second page of the issues was fetched and the callback invoked
\* on a pull request after that
C19_Witness ==
    /\ werr # "nil"
    /\ pc = "exit"
    /\ Len(remote[TypeIssue].pages[1]) = 3
    /\ Len(Reqs(TypeIssue)) = 2
    /\ Len(Calls(TypeIssue)) = 3
    /\ Len(Calls(TypePullRequest)) = 1
    /\ stdout = <<>>
    /\ Len(w) = 2

-----------------------------------------------------------------------------
(* C13 *)

\* a traversal has been run after another one of the same endpoint, and has
\* returned
RanTwice == first # <<>> /\ pc = "returned" /\ first[1].kind = cur

\* the call of log that failed: 0 when none did
FailedAt(log) == IF log # <<>> /\ ~log[Len(log)].ok THEN Len(log) ELSE 0

\* C13 as it stands: two traversals of the same endpoint with the same
\* repository and cutoff, against the same remote, have invoked the callback
\* on the same items in the same order and have returned the same result.
C13_SameCallbacksAndResult ==
    RanTwice => (calls = first[1].calls /\ err = first[1].err)

\* C13, amended: two such traversals in which no call fails, or the call
\* that fails is the same one, have invoked the callback on the same items
\* in the same order and have returned the same result, after the same calls.
C13_SameCallbacksAndResultUnlessFetchFails ==
    (RanTwice /\ FailedAt(requests) = FailedAt(first[1].requests)) =>
        /\ calls = first[1].calls
        /\ err = first[1].err
        /\ requests = first[1].requests

\* two traversals of the same endpoint have returned success after two
\* calls and two callbacks each, at an item created before the cutoff
C13_Witness ==
    /\ RanTwice
    /\ err = "nil"
    /\ first[1].err = "nil"
    /\ Len(requests) = 2
    /\ Len(calls) = 2
    /\ Len(calls) < Len(AllItems(cur))

-----------------------------------------------------------------------------
(* C16 *)

\* the call r is what a first call of a traversal is: no page set, and the
\* client, the repository and the other options those of the run
FirstCall(r) ==
    /\ r.options.Page = 0
    /\ r.options = NewOptions
    /\ r.client = httpClient
    /\ r.owner = Organization
    /\ r.repo = Repository

\* C16: the first call of every traversal asks for the first page (no page
\* set), wherever the traversal before it stopped and whatever it returned;
\* and from the parsing of the flag on the cutoff is the date of the flag,
\* and every call carries the repository of the run: no traversal has
\* changed them.
C16_OwnPageCursor ==
    /\ requests # <<>> => FirstCall(requests[1])
    /\ first # <<>> => FirstCall(first[1].requests[1])
    /\ (pc \notin {"auth", "parse"} /\ err \notin {"auth", "parse"}) =>
            sinceDateTime = TimeParse(Since).t
    /\ \A n \in 1..Len(requests) :
            requests[n].owner = Organization /\ requests[n].repo = Repository

\* a traversal has made its first call after a traversal of the same
\* endpoint whose call for the second page failed
C16_Witness ==
    /\ first # <<>>
    /\ first[1].kind = cur
    /\ first[1].err = "fetch"
    /\ Len(first[1].requests) = 2
    /\ Len(requests) = 1
    /\ requests[1].ok
    /\ options.Page = 0

\* a traversal has made its first call after a traversal that returned at an
\* item created before the cutoff in its second page
C16_AfterEarlyStop ==
    /\ first # <<>>
    /\ first[1].err = "nil"
    /\ Len(first[1].requests) = 2
    /\ Len(first[1].calls) < Len(AllItems(first[1].kind))
    /\ Len(requests) = 1

=============================================================================
